---- MODULE Spec2Model ----
(***************************************************************************)
(* Motorino::Engine (nkgt/motorino): the frame loop, the per-slot fences   *)
(* and the swapchain lifecycle of renderer.cpp, as a state machine.        *)
(*                                                                         *)
(* One host thread runs init_vulkan, run (glfwPollEvents + draw_frame) and *)
(* the destructor.  resize_callback is delivered on that thread from       *)
(* inside glfwPollEvents and, re-entrantly, from inside the glfwWaitEvents *)
(* call of recreate_swapchain, so the activations of recreate_swapchain    *)
(* form a call stack.  The GPU completes accepted submissions on its own.  *)
(*                                                                         *)
(* Vulkan handles are numbered in creation order; 0 is VK_NULL_HANDLE.     *)
(* Every handle keeps the number of destroy calls it was passed to, so a   *)
(* leak (0 at exit) and a double destroy (2) are both visible.             *)
(*                                                                         *)
(* The device context part of init_vulkan (find_queue_indices, the queue   *)
(* entries of vkCreateDevice, the swapchain create info) and the upload of *)
(* submit_vertex_data are specifications of their own, DeviceSpec and      *)
(* UploadSpec, over variables the frame loop leaves alone.                 *)
(***************************************************************************)
EXTENDS Naturals, Integers, Sequences, FiniteSets, TLC

\* ---------------------------------------------------------------- bounds
MaxEvents == 3      \* size events delivered plus failing Vulkan calls per run
MaxDim    == 1      \* largest window width (0 = no area)
MaxImages == 2      \* largest number of swapchain images the driver hands out
MaxPresents == 1    \* presents queued on one slot's semaphore and not yet executed
MaxFamilies == 3    \* largest number of queue families of the physical device
MaxUploads == 2     \* calls of submit_vertex_data
MaxCount == 2       \* largest vertex_count and index_count of a Geometry
MaxTypes == 2       \* largest memoryTypeCount; the type filter has that many bits
MaxFlagBits == 2    \* bits of a VkMemoryPropertyFlags value
MaxShaders == 2     \* longest shader list passed to create_pipeline
MaxFrames == 3      \* draw_frame executions counted

\* ------------------------------------------------------ program constants
max_frames_in_flight == 2
VK_NULL_HANDLE == 0
sizeof_Vertex == 20      \* struct Vertex { float pos[2]; float color[3]; }
sizeof_uint16_t == 2

Slots == 0 .. (max_frames_in_flight - 1)
\* Framebuffer sizes of the window: any width up to MaxDim; of the height only
\* zero or not matters to the code.
Widths  == 0 .. MaxDim
Heights == {0, 1}

\* What an output parameter holds after a failed vkCreate* call: the Vulkan
\* specification leaves it undefined; drivers leave it untouched or null it.
UndefinedOutputs == {"keep", "null"}

AcquireResults == {"success", "suboptimal", "out_of_date"}

\* std::uint32_t image_index; declared without a value in draw_frame: an
\* indeterminate value, written here as a number that is no image index.
UNINITIALIZED == -1

VARIABLES
    pc,               \* position of the host thread in main/init_vulkan/run/~Engine
    stack,            \* activations of resize_callback -> recreate_swapchain
    win,              \* <<w, h>> that glfwGetFramebufferSize reports
    _width, _height,  \* Engine::_width, Engine::_height
    _swapchain,       \* Engine::_swapchain
    _images,          \* Engine::_images: the swapchain each image belongs to
    _image_views,     \* Engine::_image_views
    _framebuffers,    \* Engine::_framebuffers
    handles,          \* every handle ever created: kind, referent, extent, destroy calls
    current_frame,    \* static local of draw_frame
    _inflight_fences, \* slot -> fence signaled
    pending,          \* slot -> submissions of the slot's command buffer not yet complete
    image_index,      \* local of draw_frame
    acquire_result,   \* VkResult of the vkAcquireNextImageKHR of this iteration
    _image_available_semaphores, \* slot -> semaphore signaled
    _render_finished_semaphores, \* slot -> semaphore signaled
    presents,         \* slot -> queued presents waiting on the slot's render-finished semaphore
    resizes,          \* size events delivered so far
    fails,            \* failed Vulkan calls so far
    properties,       \* find_queue_indices: the queue family table of the device
    family,           \* find_queue_indices: the loop variable i
    _indices,         \* Engine::_indices
    queue_infos,      \* init_vulkan: family indices of the entries passed to vkCreateDevice
    surface_capabilities, \* create_swapchain: minImageCount, maxImageCount of the surface
    swapchain_info,   \* create_swapchain: the VkSwapchainCreateInfoKHR
    dpc,              \* position of init_vulkan in its device context part
    upc,              \* position of the host thread in submit_vertex_data
    uploads,          \* calls of submit_vertex_data so far
    buffers,          \* every VkBuffer and VkDeviceMemory ever created: kind, owner, destroy calls
    staging_buffer, staging_buffer_memory,    \* locals of submit_vertex_data
    _vertex_buffer, _vertex_buffer_memory,    \* Engine::_vertex_buffer, _vertex_buffer_memory
    transfer_queue,   \* copies submitted to Engine::_transfer_queue and not yet executed
    copy_done,        \* the copy of the current call has executed
    upload_result,    \* what the last call of submit_vertex_data returned: "true", "false"
    geometry,         \* the Geometry passed to the current call
    _vertex_count, _index_count,  \* Engine::_vertex_count, Engine::_index_count
    failed_steps,     \* the Vulkan calls of the current call that failed
    last_upload,      \* history: the Geometry of the most recent call that returned true
    commands,         \* what record_command_buffer last recorded since the last upload
    mem_properties,   \* find_memory_type: propertyFlags of memoryTypes[0 .. memoryTypeCount - 1]
    filter,           \* find_memory_type: parameter filter
    property_flags,   \* find_memory_type: parameter properties
    type_i,           \* find_memory_type: the loop variable i
    memory_index,     \* find_memory_type: the output parameter
    mpc,              \* position in find_memory_type, then its result
    shaders,          \* create_pipeline: for each ShaderInfo, what its file does
    shader_i,         \* create_pipeline: the loop variable i
    shader_modules,   \* create_pipeline: std::vector<VkShaderModule> shader_modules
    shader_stages,    \* create_pipeline: the module of each pushed stage
    modules,          \* every shader module created: the destroy calls it was passed to
    files_opened,     \* files opened by CreateFile
    _pipeline_layout, _pipeline,  \* Engine::_pipeline_layout, Engine::_pipeline
    ppc,              \* position in create_pipeline, then its result
    rebuilt,          \* history: what each recreate_swapchain call left, in return order
    frames            \* history: the number of draw_frame executions that returned

vars == << pc, stack, win, _width, _height, _swapchain, _images, _image_views,
           _framebuffers, handles, current_frame, _inflight_fences, pending,
           image_index, acquire_result, _image_available_semaphores,
           _render_finished_semaphores, presents, resizes, fails,
           properties, family, _indices, queue_infos, surface_capabilities,
           swapchain_info, dpc, upc, uploads, buffers, staging_buffer,
           staging_buffer_memory, _vertex_buffer, _vertex_buffer_memory,
           transfer_queue, copy_done, upload_result, geometry, _vertex_count,
           _index_count, failed_steps, last_upload, commands,
           mem_properties, filter, property_flags, type_i, memory_index, mpc,
           shaders, shader_i, shader_modules, shader_stages, modules,
           files_opened, _pipeline_layout, _pipeline, ppc, rebuilt,
           frames >>

\* The environment may still deliver a size event or fail a call.
EventsLeft == resizes + fails < MaxEvents

swapVars == << _swapchain, _images, _image_views, _framebuffers, handles >>
semVars  == << _image_available_semaphores, _render_finished_semaphores, presents >>
loopVars == << current_frame, _inflight_fences, pending, image_index,
               acquire_result, semVars >>
winVars  == << win, _width, _height, resizes >>
engineVars == << pc, stack, winVars, swapVars, loopVars, fails, rebuilt, frames >>
devVars  == << properties, family, _indices, queue_infos, surface_capabilities,
               swapchain_info, dpc >>
\* What the frame loop and the swapchain lifecycle leave alone.
uploadVars == << upc, uploads, buffers, staging_buffer, staging_buffer_memory,
                _vertex_buffer, _vertex_buffer_memory, transfer_queue, copy_done,
                upload_result, geometry, _vertex_count, _index_count, failed_steps,
                last_upload, commands >>
memVars == << mem_properties, filter, property_flags, type_i, memory_index, mpc >>
pipeVars == << shaders, shader_i, shader_modules, shader_stages, modules,
              files_opened, _pipeline_layout, _pipeline, ppc >>
setupVars == << devVars, uploadVars, memVars, pipeVars, rebuilt, frames >>

\* ------------------------------------------------------------- handles
Swapchain(w, h)  == [kind |-> "swapchain", ref |-> VK_NULL_HANDLE, w |-> w, h |-> h, destroys |-> 0]
ImageView(sc)    == [kind |-> "view", ref |-> sc, w |-> 0, h |-> 0, destroys |-> 0]
Framebuffer(v, w, h) == [kind |-> "framebuffer", ref |-> v, w |-> w, h |-> h, destroys |-> 0]

Range(list) == {list[i] : i \in DOMAIN list}

Live(h) == h \in DOMAIN handles /\ handles[h].destroys = 0

\* vkDestroy*(device, h, nullptr): ignored for VK_NULL_HANDLE.  The object is
\* gone: what is left of it is its kind and the number of destroy calls.
Destroyed(kind, n) == [kind |-> kind, ref |-> VK_NULL_HANDLE, w |-> 0, h |-> 0, destroys |-> n]
Destroy(hs, h) ==
    IF h \in DOMAIN hs
    THEN [hs EXCEPT ![h] = Destroyed(@.kind, @.destroys + 1)]
    ELSE hs

RECURSIVE DestroyAll(_, _)
DestroyAll(hs, list) ==
    IF list = << >> THEN hs
    ELSE DestroyAll(Destroy(hs, Head(list)), Tail(list))

\* A handle that was destroyed exactly once and that neither the engine nor a
\* remaining object still names can never be passed to a Vulkan call again:
\* it leaves the table, and the remaining handles are renumbered in creation
\* order (handle values carry no meaning, only their identity does).  Handles
\* never destroyed (leaks) and handles destroyed twice stay on record.
Forget(hs, sc, imgs, views, fbs) ==
    LET named == {sc} \cup Range(imgs) \cup Range(views) \cup Range(fbs)
                      \cup {hs[g].ref : g \in DOMAIN hs}
        keep  == {h \in DOMAIN hs : hs[h].destroys # 1 \/ h \in named}
        rn(h) == IF h \in keep THEN Cardinality({g \in keep : g <= h}) ELSE VK_NULL_HANDLE
        old(i) == CHOOSE h \in keep : rn(h) = i
    IN  [ handles |-> [i \in 1 .. Cardinality(keep) |-> [hs[old(i)] EXCEPT !.ref = rn(@)]],
          swapchain |-> rn(sc),
          images |-> [i \in DOMAIN imgs |-> rn(imgs[i])],
          image_views |-> [i \in DOMAIN views |-> rn(views[i])],
          framebuffers |-> [i \in DOMAIN fbs |-> rn(fbs[i])] ]

SetSwapchainState(r) ==
    /\ handles' = r.handles
    /\ _swapchain' = r.swapchain
    /\ _images' = r.images
    /\ _image_views' = r.image_views
    /\ _framebuffers' = r.framebuffers

\* std::vector::resize: keeps the first elements, value-initializes new ones.
Resize(list, n) ==
    [i \in 1 .. n |-> IF i <= Len(list) THEN list[i] ELSE VK_NULL_HANDLE]

Undefined(out, old) == IF out = "null" THEN VK_NULL_HANDLE ELSE old

\* ------------------------------------------------------- call stack
Frame(p, w, h, f) == [pc |-> p, width |-> w, height |-> h, failed |-> f]
Top == stack[Len(stack)]
AtFrame(p) == stack # << >> /\ Top.pc = p
AtMain(p) == stack = << >> /\ pc = p
SetTop(f) == [stack EXCEPT ![Len(stack)] = f]
Goto(p) == stack' = SetTop([Top EXCEPT !.pc = p])

\* ------------------------------------------- swapchain build sub-steps
\* A create_swapchain that takes the image extent from _width and _height.
create_swapchain_MemberExtent(ok, n, out) ==
    LET new  == Len(handles) + 1
        sc   == IF ok THEN new ELSE Undefined(out, _swapchain)
        imgs == IF ok THEN [i \in 1 .. n |-> new] ELSE _images
        hs   == IF ok THEN Append(handles, Swapchain(_width, _height)) ELSE handles
    IN  /\ ~ok => EventsLeft
        /\ fails' = IF ok THEN fails ELSE fails + 1
        /\ SetSwapchainState(Forget(hs, sc, imgs, _image_views, _framebuffers))

\* Engine::create_swapchain: ok = vkCreateSwapchainKHR succeeded, n = images
\* the new swapchain has, out = what a failed call leaves in _swapchain.
\* The image extent is the surface's currentExtent (the window's size).
create_swapchain(ok, n, out) ==
    LET new  == Len(handles) + 1
        sc   == IF ok THEN new ELSE Undefined(out, _swapchain)
        imgs == IF ok THEN [i \in 1 .. n |-> new] ELSE _images
        hs   == IF ok THEN Append(handles, Swapchain(win[1], win[2])) ELSE handles
    IN  /\ ~ok => EventsLeft
        /\ fails' = IF ok THEN fails ELSE fails + 1
        /\ SetSwapchainState(Forget(hs, sc, imgs, _image_views, _framebuffers))

\* Engine::create_image_views: the first k vkCreateImageView calls succeed;
\* k = _images.size() is success, otherwise call k+1 fails and the function
\* returns false with the views made so far left in the vector.
create_image_views(k, out) ==
    LET n     == Len(_images)
        base  == Resize(_image_views, n)
        views == [i \in 1 .. n |->
                     IF i <= k THEN Len(handles) + i
                     ELSE IF i = k + 1 THEN Undefined(out, base[i])
                     ELSE base[i]]
        hs    == handles \o [i \in 1 .. k |-> ImageView(_images[i])]
    IN  /\ k \in 0 .. n
        /\ k < n => EventsLeft
        /\ fails' = IF k < n THEN fails + 1 ELSE fails
        /\ SetSwapchainState(Forget(hs, _swapchain, _images, views, _framebuffers))

\* A create_framebuffers that appends to _framebuffers instead of resizing it.
create_framebuffers_PushBack(k, out) ==
    LET m    == Len(_image_views)
        fbs  == _framebuffers \o [i \in 1 .. k |-> Len(handles) + i]
        hs   == handles \o [i \in 1 .. k |-> Framebuffer(_image_views[i], _width, _height)]
    IN  /\ k \in 0 .. m
        /\ k < m => EventsLeft
        /\ fails' = IF k < m THEN fails + 1 ELSE fails
        /\ SetSwapchainState(Forget(hs, _swapchain, _images, _image_views, fbs))

\* Engine::create_framebuffers: one framebuffer per image view, of size
\* _width x _height; same failure shape as create_image_views.
create_framebuffers(k, out) ==
    LET n    == Len(_images)
        m    == Len(_image_views)
        base == Resize(_framebuffers, n)
        fbs  == [i \in 1 .. n |->
                    IF i <= k THEN Len(handles) + i
                    ELSE IF i = k + 1 THEN Undefined(out, base[i])
                    ELSE base[i]]
        hs   == handles \o [i \in 1 .. k |-> Framebuffer(_image_views[i], _width, _height)]
    IN  /\ k \in 0 .. m
        /\ k < m => EventsLeft
        /\ fails' = IF k < m THEN fails + 1 ELSE fails
        /\ SetSwapchainState(Forget(hs, _swapchain, _images, _image_views, fbs))

\* Engine::cleanup_swapchain, its three destroy loops in source order.  The
\* vectors and _swapchain keep the destroyed handles.
destroy_framebuffers == handles' = DestroyAll(handles, _framebuffers)
destroy_image_views  == handles' = DestroyAll(handles, _image_views)
destroy_swapchain    == handles' = Destroy(handles, _swapchain)

\* vkDeviceWaitIdle returns once no submission is pending on any queue.
DeviceIdle == \A i \in Slots : pending[i] = 0

\* ----------------------------------------------------------- init_vulkan
InitCreateSwapchain ==
    /\ AtMain("init_swapchain")
    /\ \E ok \in BOOLEAN, n \in 1 .. MaxImages, out \in UndefinedOutputs :
          /\ create_swapchain(ok, n, out)
          /\ pc' = IF ok THEN "init_views" ELSE "init_failed"
    /\ UNCHANGED << setupVars, stack, winVars, loopVars >>

InitCreateImageViews ==
    /\ AtMain("init_views")
    /\ \E k \in 0 .. MaxImages, out \in UndefinedOutputs :
          /\ create_image_views(k, out)
          /\ pc' = IF k = Len(_images) THEN "init_framebuffers" ELSE "init_failed"
    /\ UNCHANGED << setupVars, stack, winVars, loopVars >>

InitCreateFramebuffers ==
    /\ AtMain("init_framebuffers")
    /\ \E k \in 0 .. MaxImages, out \in UndefinedOutputs :
          /\ create_framebuffers(k, out)
          /\ pc' = IF k = Len(_image_views) THEN "run" ELSE "init_failed"
    /\ UNCHANGED << setupVars, stack, winVars, loopVars >>

\* main: init_vulkan returned false, return EXIT_FAILURE runs ~Engine.
InitFailed ==
    /\ AtMain("init_failed")
    /\ pc' = "dtor_framebuffers"
    /\ UNCHANGED << setupVars, stack, winVars, swapVars, loopVars, fails >>

\* ------------------------------------------------------------------ run
\* while (!glfwWindowShouldClose(_handle)): the close signal may be up at any check.
RunContinue ==
    /\ AtMain("run")
    /\ pc' = "poll"
    /\ UNCHANGED << setupVars, stack, winVars, swapVars, loopVars, fails >>

RunClose ==
    /\ AtMain("run")
    /\ pc' = "run_wait_idle"
    /\ UNCHANGED << setupVars, stack, winVars, swapVars, loopVars, fails >>

\* A run() that returns to main without vkDeviceWaitIdle.
RunDeviceWaitIdle_NoWait ==
    /\ AtMain("run_wait_idle")
    /\ pc' = "dtor_framebuffers"
    /\ UNCHANGED << setupVars, stack, winVars, swapVars, loopVars, fails >>

\* vkDeviceWaitIdle(_device) after the loop of run().
RunDeviceWaitIdle ==
    /\ AtMain("run_wait_idle")
    /\ DeviceIdle
    /\ pc' = "dtor_framebuffers"
    /\ UNCHANGED << setupVars, stack, winVars, swapVars, loopVars, fails >>

\* resize_callback(window, w, h): set_extent(w, h), then recreate_swapchain()
\* starts with its locals width = height = 0.
resize_callback(w, h) ==
    /\ EventsLeft
    /\ resizes' = resizes + 1
    /\ win' = << w, h >>
    /\ _width' = w
    /\ _height' = h
    /\ stack' = Append(stack, Frame("get_size", 0, 0, FALSE))

\* glfwPollEvents in run: delivers the queued size events, then returns.
PollDeliver ==
    /\ AtMain("poll")
    /\ \E w \in Widths, h \in Heights : resize_callback(w, h)
    /\ UNCHANGED << setupVars, pc, swapVars, loopVars, fails >>

PollReturn ==
    /\ AtMain("poll")
    /\ pc' = "draw_wait"
    /\ UNCHANGED << setupVars, stack, winVars, swapVars, loopVars, fails >>

\* ----------------------------------------------------------- draw_frame
\* A draw_frame that goes on to acquire without the wait on the slot's fence.
WaitForFences_NoWait ==
    /\ AtMain("draw_wait")
    /\ pc' = "draw_acquire"
    /\ UNCHANGED << setupVars, stack, winVars, swapVars, loopVars, fails >>

\* vkWaitForFences(&_inflight_fences[current_frame], UINT64_MAX) blocks until
\* the slot's fence is signaled.
WaitForFences ==
    /\ AtMain("draw_wait")
    /\ _inflight_fences[current_frame]
    /\ pc' = "draw_acquire"
    /\ UNCHANGED << setupVars, stack, winVars, swapVars, loopVars, fails >>

\* vkAcquireNextImageKHR(..., _image_available_semaphores[current_frame], ...):
\* the VkResult is dropped by the caller.  On success/suboptimal image_index is
\* written and the semaphore is signaled; otherwise the local stays
\* uninitialized and the semaphore is left alone.
AcquireNextImage ==
    /\ AtMain("draw_acquire")
    /\ \E r \in AcquireResults :
          /\ acquire_result' = r
          /\ IF r = "out_of_date"
             THEN /\ image_index' = image_index
                  /\ UNCHANGED _image_available_semaphores
             ELSE /\ image_index' \in 0 .. (Len(_images) - 1)
                  /\ _image_available_semaphores' =
                        [_image_available_semaphores EXCEPT ![current_frame] = TRUE]
    /\ pc' = "draw_record"
    /\ UNCHANGED << setupVars, stack, winVars, swapVars, current_frame, _inflight_fences,
                    pending, _render_finished_semaphores, presents, fails >>

\* A draw_frame that re-records and submits without vkResetFences.
ResetAndRecord_NoReset ==
    /\ AtMain("draw_record")
    /\ pc' = "draw_submit"
    /\ UNCHANGED << setupVars, stack, winVars, swapVars, loopVars, fails >>

\* vkResetFences, vkResetCommandBuffer, record_command_buffer.
ResetAndRecord ==
    /\ AtMain("draw_record")
    /\ _inflight_fences' = [_inflight_fences EXCEPT ![current_frame] = FALSE]
    /\ pc' = "draw_submit"
    /\ UNCHANGED << setupVars, stack, winVars, swapVars, current_frame, pending,
                    image_index, acquire_result, semVars, fails >>

\* vkQueueSubmit(_graphics_queue, ..., _inflight_fences[current_frame]): an
\* accepted submission is pending until the GPU completes it; the VkResult is
\* dropped.
QueueSubmit ==
    /\ AtMain("draw_submit")
    /\ \E ok \in BOOLEAN :
          IF ok
          THEN /\ pending' = [pending EXCEPT ![current_frame] = @ + 1]
               /\ fails' = fails
          ELSE /\ EventsLeft
               /\ fails' = fails + 1
               /\ UNCHANGED pending
    /\ pc' = "draw_present"
    /\ UNCHANGED << setupVars, stack, winVars, swapVars, current_frame, _inflight_fences,
                    image_index, acquire_result, semVars >>

\* vkQueuePresentKHR with pWaitSemaphores = &_render_finished_semaphores[current_frame]
\* queues the present, then current_frame = (current_frame + 1) % max_frames_in_flight.
QueuePresent ==
    /\ AtMain("draw_present")
    /\ presents[current_frame] < MaxPresents
    /\ presents' = [presents EXCEPT ![current_frame] = @ + 1]
    /\ current_frame' = (current_frame + 1) % max_frames_in_flight
    /\ image_index' = UNINITIALIZED
    /\ acquire_result' = "none"
    /\ pc' = "run"
    /\ UNCHANGED << setupVars, stack, winVars, swapVars, _inflight_fences, pending,
                    _image_available_semaphores, _render_finished_semaphores, fails >>

\* The GPU runs a submission of slot i: its wait on
\* _image_available_semaphores[i] unsignals that semaphore, its completion
\* signals _render_finished_semaphores[i] and the fence passed with it.  A
\* submission whose wait semaphore has no signal coming (the acquire failed)
\* is invalid usage: it may run all the same or never run.
GpuComplete ==
    \E i \in Slots :
        /\ pending[i] > 0
        /\ pending' = [pending EXCEPT ![i] = @ - 1]
        /\ _image_available_semaphores' = [_image_available_semaphores EXCEPT ![i] = FALSE]
        /\ _render_finished_semaphores' = [_render_finished_semaphores EXCEPT ![i] = TRUE]
        /\ _inflight_fences' = [_inflight_fences EXCEPT ![i] = TRUE]
        /\ UNCHANGED << setupVars, pc, stack, winVars, swapVars, current_frame,
                        image_index, acquire_result, presents, fails >>

\* A queued present of slot i can execute: the semaphore it waits on is signaled.
PresentReady(i) == presents[i] > 0 /\ _render_finished_semaphores[i]

\* A presentation engine whose presents wait on no semaphore.
PresentEngine_NoWait ==
    \E i \in Slots :
        /\ presents[i] > 0
        /\ _render_finished_semaphores' = [_render_finished_semaphores EXCEPT ![i] = FALSE]
        /\ presents' = [presents EXCEPT ![i] = @ - 1]
        /\ UNCHANGED << setupVars, pc, stack, winVars, swapVars, current_frame, _inflight_fences,
                        pending, image_index, acquire_result,
                        _image_available_semaphores, fails >>

\* The presentation engine executes a queued present of slot i; the wait
\* unsignals _render_finished_semaphores[i].
PresentEngine ==
    \E i \in Slots :
        /\ PresentReady(i)
        /\ _render_finished_semaphores' = [_render_finished_semaphores EXCEPT ![i] = FALSE]
        /\ presents' = [presents EXCEPT ![i] = @ - 1]
        /\ UNCHANGED << setupVars, pc, stack, winVars, swapVars, current_frame, _inflight_fences,
                        pending, image_index, acquire_result,
                        _image_available_semaphores, fails >>

\* ---------------------------------------------------- recreate_swapchain
\* A loop that waits only while both dimensions are zero.
ShouldWait_Both(w, h) == w = 0 /\ h = 0

\* while (width == 0 || height == 0)
ShouldWait(w, h) == w = 0 \/ h = 0

\* glfwGetFramebufferSize(_handle, &width, &height) before the loop.
RecreateGetSize ==
    /\ AtFrame("get_size")
    /\ stack' = SetTop(Frame(IF ShouldWait(win[1], win[2]) THEN "loop_get" ELSE "wait_idle",
                             win[1], win[2], Top.failed))
    /\ UNCHANGED << setupVars, pc, winVars, swapVars, loopVars, fails >>

\* glfwGetFramebufferSize inside the loop; glfwWaitEvents follows it.
RecreateLoopGetSize ==
    /\ AtFrame("loop_get")
    /\ stack' = SetTop(Frame("wait_events", win[1], win[2], Top.failed))
    /\ UNCHANGED << setupVars, pc, winVars, swapVars, loopVars, fails >>

\* glfwWaitEvents delivers size events on this thread: resize_callback runs
\* on top of the waiting activation.
WaitDeliver ==
    /\ AtFrame("wait_events")
    /\ \E w \in Widths, h \in Heights : resize_callback(w, h)
    /\ UNCHANGED << setupVars, pc, swapVars, loopVars, fails >>

\* glfwWaitEvents returns (after an event of any kind); the loop condition is
\* evaluated on the locals read before the wait.
WaitReturn ==
    /\ AtFrame("wait_events")
    /\ Goto(IF ShouldWait(Top.width, Top.height) THEN "loop_get" ELSE "wait_idle")
    /\ UNCHANGED << setupVars, pc, winVars, swapVars, loopVars, fails >>

\* A recreate_swapchain that goes on to cleanup_swapchain without vkDeviceWaitIdle.
RecreateDeviceWaitIdle_NoWait ==
    /\ AtFrame("wait_idle")
    /\ Goto("cleanup_framebuffers")
    /\ UNCHANGED << setupVars, pc, winVars, swapVars, loopVars, fails >>

\* vkDeviceWaitIdle(_device) before cleanup_swapchain().
RecreateDeviceWaitIdle ==
    /\ AtFrame("wait_idle")
    /\ DeviceIdle
    /\ Goto("cleanup_framebuffers")
    /\ UNCHANGED << setupVars, pc, winVars, swapVars, loopVars, fails >>

RecreateDestroyFramebuffers ==
    /\ AtFrame("cleanup_framebuffers")
    /\ destroy_framebuffers
    /\ Goto("cleanup_views")
    /\ UNCHANGED << setupVars, pc, winVars, _swapchain, _images, _image_views, _framebuffers,
                    loopVars, fails >>

RecreateDestroyImageViews ==
    /\ AtFrame("cleanup_views")
    /\ destroy_image_views
    /\ Goto("cleanup_swapchain")
    /\ UNCHANGED << setupVars, pc, winVars, _swapchain, _images, _image_views, _framebuffers,
                    loopVars, fails >>

\* A cleanup_swapchain that also resets the in-flight fences.
RecreateDestroySwapchain_ResetFences ==
    /\ AtFrame("cleanup_swapchain")
    /\ destroy_swapchain
    /\ _inflight_fences' = [i \in Slots |-> FALSE]
    /\ Goto("create_swapchain")
    /\ UNCHANGED << setupVars, pc, winVars, _swapchain, _images, _image_views, _framebuffers,
                    current_frame, pending, image_index, acquire_result, semVars, fails >>

RecreateDestroySwapchain ==
    /\ AtFrame("cleanup_swapchain")
    /\ destroy_swapchain
    /\ Goto("create_swapchain")
    /\ UNCHANGED << setupVars, pc, winVars, _swapchain, _images, _image_views, _framebuffers,
                    loopVars, fails >>

\* create_swapchain(); create_image_views(); create_framebuffers(); with the
\* three results dropped.
RecreateCreateSwapchain ==
    /\ AtFrame("create_swapchain")
    /\ \E ok \in BOOLEAN, n \in 1 .. MaxImages, out \in UndefinedOutputs :
          /\ create_swapchain(ok, n, out)
          /\ stack' = SetTop(Frame("create_views", Top.width, Top.height, Top.failed \/ ~ok))
    /\ UNCHANGED << setupVars, pc, winVars, loopVars >>

RecreateCreateImageViews ==
    /\ AtFrame("create_views")
    /\ \E k \in 0 .. MaxImages, out \in UndefinedOutputs :
          /\ create_image_views(k, out)
          /\ stack' = SetTop(Frame("create_framebuffers", Top.width, Top.height,
                                   Top.failed \/ k < Len(_images)))
    /\ UNCHANGED << setupVars, pc, winVars, loopVars >>

RecreateCreateFramebuffers ==
    /\ AtFrame("create_framebuffers")
    /\ \E k \in 0 .. MaxImages, out \in UndefinedOutputs :
          /\ create_framebuffers(k, out)
          /\ stack' = SetTop(Frame("return", Top.width, Top.height,
                                   Top.failed \/ k < Len(_image_views)))
    /\ UNCHANGED << setupVars, pc, winVars, loopVars >>

\* return true;
RecreateReturn ==
    /\ AtFrame("return")
    /\ stack' = SubSeq(stack, 1, Len(stack) - 1)
    /\ UNCHANGED << setupVars, pc, winVars, swapVars, loopVars, fails >>

\* --------------------------------------------------------------- ~Engine
\* cleanup_swapchain() opens the destructor.
DtorDestroyFramebuffers ==
    /\ AtMain("dtor_framebuffers")
    /\ destroy_framebuffers
    /\ pc' = "dtor_views"
    /\ UNCHANGED << setupVars, stack, winVars, _swapchain, _images, _image_views, _framebuffers,
                    loopVars, fails >>

DtorDestroyImageViews ==
    /\ AtMain("dtor_views")
    /\ destroy_image_views
    /\ pc' = "dtor_swapchain"
    /\ UNCHANGED << setupVars, stack, winVars, _swapchain, _images, _image_views, _framebuffers,
                    loopVars, fails >>

\* vkDestroySwapchainKHR closes cleanup_swapchain; when the destructor is
\* over the Engine's members no longer exist.
DtorDestroySwapchain ==
    /\ AtMain("dtor_swapchain")
    /\ SetSwapchainState(Forget(Destroy(handles, _swapchain), VK_NULL_HANDLE, << >>, << >>, << >>))
    /\ pc' = "done"
    /\ UNCHANGED << setupVars, stack, winVars, loopVars, fails >>

\* ------------------------------------------------------------ the system
\* Engine::Engine(width, height, name) opens a window of the requested
\* (nonzero) size; init_vulkan has reached its create_swapchain() call.
EngineInit ==
    /\ pc = "init_swapchain"
    /\ stack = << >>
    /\ win \in (Widths \ {0}) \X (Heights \ {0})
    /\ _width = win[1]
    /\ _height = win[2]
    /\ _swapchain = VK_NULL_HANDLE
    /\ _images = << >>
    /\ _image_views = << >>
    /\ _framebuffers = << >>
    /\ handles = << >>
    /\ current_frame = 0
    /\ _inflight_fences = [i \in Slots |-> TRUE]
    /\ pending = [i \in Slots |-> 0]
    /\ image_index = UNINITIALIZED
    /\ acquire_result = "none"
    /\ _image_available_semaphores = [i \in Slots |-> FALSE]
    /\ _render_finished_semaphores = [i \in Slots |-> FALSE]
    /\ presents = [i \in Slots |-> 0]
    /\ resizes = 0
    /\ fails = 0
    /\ rebuilt = << >>
    /\ frames = 0

\* std::optional without a value (the indices themselves are 0 or more).
NULLOPT == -1

\* init_vulkan has resolved the three queue families, created the device
\* and reached its create_swapchain() call.
DeviceReady ==
    /\ properties = << [graphics |-> TRUE, transfer |-> FALSE, present_support |-> TRUE],
                       [graphics |-> FALSE, transfer |-> TRUE, present_support |-> FALSE] >>
    /\ family = 1
    /\ _indices = [graphics |-> 0, transfer |-> 1, present |-> 0]
    /\ queue_infos = << 0, 1 >>
    /\ surface_capabilities = UNINITIALIZED
    /\ swapchain_info = UNINITIALIZED
    /\ dpc = "create_swapchain"

\* Engine::Engine leaves the geometry buffer null; nothing was uploaded.
UploadIdle ==
    /\ upc = "idle"
    /\ uploads = 0
    /\ buffers = << >>
    /\ staging_buffer = VK_NULL_HANDLE
    /\ staging_buffer_memory = VK_NULL_HANDLE
    /\ _vertex_buffer = VK_NULL_HANDLE
    /\ _vertex_buffer_memory = VK_NULL_HANDLE
    /\ transfer_queue = << >>
    /\ copy_done = FALSE
    /\ upload_result = "none"
    /\ geometry = [vertex_count |-> 0, index_count |-> 0]
    /\ _vertex_count = 0
    /\ _index_count = 0
    /\ failed_steps = {}
    /\ last_upload = [vertex_count |-> 0, index_count |-> 0]
    /\ commands = << >>

\* No call of find_memory_type is in progress.
MemoryIdle ==
    /\ mem_properties = << >>
    /\ filter = 0
    /\ property_flags = 0
    /\ type_i = 0
    /\ memory_index = UNINITIALIZED
    /\ mpc = "idle"

\* Engine::Engine leaves the pipeline and its layout null; create_pipeline
\* has not been called.
PipelineIdle ==
    /\ shaders = << >>
    /\ shader_i = 0
    /\ shader_modules = << >>
    /\ shader_stages = << >>
    /\ modules = << >>
    /\ files_opened = 0
    /\ _pipeline_layout = VK_NULL_HANDLE
    /\ _pipeline = VK_NULL_HANDLE
    /\ ppc = "idle"

Init == EngineInit /\ DeviceReady /\ UploadIdle /\ MemoryIdle /\ PipelineIdle

\* No queued present is waiting on a semaphore that is already signaled.
PresentsDone == \A i \in Slots : ~PresentReady(i)

\* The whole program.  The presentation engine is prompt here: a present whose
\* semaphore is signaled executes before the host or the GPU takes its next
\* step.  Nothing the host or the GPU does reads presents or the
\* render-finished semaphores, so their behaviours are the same at any pace of
\* the presentation engine; FrameSpec below lets it lag.
Next ==
    \/ PresentEngine
    \/ PresentsDone /\ InitCreateSwapchain
    \/ PresentsDone /\ InitCreateImageViews
    \/ PresentsDone /\ InitCreateFramebuffers
    \/ PresentsDone /\ InitFailed
    \/ PresentsDone /\ RunContinue
    \/ PresentsDone /\ RunClose
    \/ PresentsDone /\ RunDeviceWaitIdle
    \/ PresentsDone /\ PollDeliver
    \/ PresentsDone /\ PollReturn
    \/ PresentsDone /\ WaitForFences
    \/ PresentsDone /\ AcquireNextImage
    \/ PresentsDone /\ ResetAndRecord
    \/ PresentsDone /\ QueueSubmit
    \/ PresentsDone /\ QueuePresent
    \/ PresentsDone /\ GpuComplete
    \/ PresentsDone /\ RecreateGetSize
    \/ PresentsDone /\ RecreateLoopGetSize
    \/ PresentsDone /\ WaitDeliver
    \/ PresentsDone /\ WaitReturn
    \/ PresentsDone /\ RecreateDeviceWaitIdle
    \/ PresentsDone /\ RecreateDestroyFramebuffers
    \/ PresentsDone /\ RecreateDestroyImageViews
    \/ PresentsDone /\ RecreateDestroySwapchain
    \/ PresentsDone /\ RecreateCreateSwapchain
    \/ PresentsDone /\ RecreateCreateImageViews
    \/ PresentsDone /\ RecreateCreateFramebuffers
    \/ PresentsDone /\ RecreateReturn
    \/ PresentsDone /\ DtorDestroyFramebuffers
    \/ PresentsDone /\ DtorDestroyImageViews
    \/ PresentsDone /\ DtorDestroySwapchain

Spec == Init /\ [][Next]_vars

\* The program in a window that is never resized, with the presentation
\* engine running at its own pace next to the host and the GPU.
FrameNext ==
    \/ InitCreateSwapchain
    \/ InitCreateImageViews
    \/ InitCreateFramebuffers
    \/ InitFailed
    \/ RunContinue
    \/ RunClose
    \/ RunDeviceWaitIdle
    \/ PollReturn
    \/ WaitForFences
    \/ AcquireNextImage
    \/ ResetAndRecord
    \/ QueueSubmit
    \/ QueuePresent
    \/ GpuComplete
    \/ DtorDestroyFramebuffers
    \/ DtorDestroyImageViews
    \/ DtorDestroySwapchain
    \/ PresentEngine

FrameSpec == Init /\ [][FrameNext]_vars

\* The host, the GPU and the presentation engine each keep taking their
\* steps: the GPU completes every accepted submission.
FrameFairSpec ==
    FrameSpec /\ WF_vars(FrameNext) /\ WF_vars(GpuComplete) /\ WF_vars(PresentEngine)

\* ------------------------------------------ device context (init_vulkan)
\* One VkQueueFamilyProperties entry (queueFlags) together with the answer of
\* vkGetPhysicalDeviceSurfaceSupportKHR for the family.
QueueFamilies == [graphics : BOOLEAN, transfer : BOOLEAN, present_support : BOOLEAN]

FamilyTables == UNION {[1 .. n -> QueueFamilies] : n \in 0 .. MaxFamilies}

\* VkSurfaceCapabilitiesKHR: maxImageCount = 0 means no limit.
SurfaceCapabilities ==
    {c \in [minImageCount : 1 .. MaxImages, maxImageCount : 0 .. MaxImages] :
        c.maxImageCount = 0 \/ c.maxImageCount >= c.minImageCount}

is_complete(indices) ==
    /\ indices.graphics # NULLOPT
    /\ indices.present # NULLOPT
    /\ indices.transfer # NULLOPT

\* A loop that tests the transfer bit whatever the graphics test gave.
FindQueueIndicesLoop_Independent ==
    /\ dpc = "find_queue_indices"
    /\ family < Len(properties)
    /\ LET is_graphics == properties[family + 1].graphics
           is_transfer == properties[family + 1].transfer
           present_support == properties[family + 1].present_support
           graphics == IF is_graphics THEN [_indices EXCEPT !.graphics = family]
                       ELSE _indices
           flagged == IF is_transfer THEN [graphics EXCEPT !.transfer = family]
                      ELSE graphics
           indices == IF present_support THEN [flagged EXCEPT !.present = family]
                      ELSE flagged
       IN  /\ _indices' = indices
           /\ IF is_complete(indices)
                 THEN dpc' = "init_indices" /\ family' = family
                 ELSE dpc' = dpc /\ family' = family + 1
    /\ UNCHANGED << properties, queue_infos, surface_capabilities, swapchain_info,
                    engineVars, uploadVars, memVars, pipeVars >>

\* One iteration of the loop of find_queue_indices over family i (0-based).
FindQueueIndicesLoop ==
    /\ dpc = "find_queue_indices"
    /\ family < Len(properties)
    /\ LET is_graphics == properties[family + 1].graphics
           is_transfer == properties[family + 1].transfer
           present_support == properties[family + 1].present_support
           flagged == IF is_graphics THEN [_indices EXCEPT !.graphics = family]
                      ELSE IF is_transfer THEN [_indices EXCEPT !.transfer = family]
                      ELSE _indices
           indices == IF present_support THEN [flagged EXCEPT !.present = family]
                      ELSE flagged
       IN  /\ _indices' = indices
           /\ IF is_complete(indices)
                 THEN dpc' = "init_indices" /\ family' = family
                 ELSE dpc' = dpc /\ family' = family + 1
    /\ UNCHANGED << properties, queue_infos, surface_capabilities, swapchain_info,
                    engineVars, uploadVars, memVars, pipeVars >>

\* The loop ends with i = family_count; find_queue_indices returns.
FindQueueIndicesReturn ==
    /\ dpc = "find_queue_indices"
    /\ family = Len(properties)
    /\ dpc' = "init_indices"
    /\ UNCHANGED << properties, family, _indices, queue_infos, surface_capabilities,
                    swapchain_info, engineVars, uploadVars, memVars, pipeVars >>

\* if (!is_complete(_indices)) return false;
InitIncompleteIndices ==
    /\ dpc = "init_indices"
    /\ ~is_complete(_indices)
    /\ dpc' = "incomplete"
    /\ UNCHANGED << properties, family, _indices, queue_infos, surface_capabilities,
                    swapchain_info, engineVars, uploadVars, memVars, pipeVars >>

\* queue_infos[] = {graphics, transfer, present}, of which vkCreateDevice is
\* passed the first queue_count.
InitCreateDevice ==
    /\ dpc = "init_indices"
    /\ is_complete(_indices)
    /\ LET queue_count == IF _indices.graphics # _indices.present THEN 3 ELSE 2
       IN  queue_infos' = SubSeq(<< _indices.graphics, _indices.transfer, _indices.present >>,
                                 1, queue_count)
    /\ \E ok \in BOOLEAN : dpc' = IF ok THEN "create_swapchain" ELSE "device_failed"
    /\ UNCHANGED << properties, family, _indices, surface_capabilities, swapchain_info,
                    engineVars, uploadVars, memVars, pipeVars >>

\* An image count that is not clamped to maxImageCount.
image_count_NoClamp(c) == c.minImageCount + 1

\* should_clamp ? maxImageCount : minImageCount + 1
image_count(c) ==
    LET should_clamp == c.maxImageCount > 0 /\ c.minImageCount + 1 > c.maxImageCount
    IN  IF should_clamp THEN c.maxImageCount ELSE c.minImageCount + 1

\* create_swapchain up to its vkCreateSwapchainKHR call: the capabilities of
\* the surface are queried and swapchain_info is filled in.
CreateSwapchainInfo ==
    /\ dpc = "create_swapchain"
    /\ \E c \in SurfaceCapabilities :
          /\ surface_capabilities' = c
          /\ swapchain_info' =
                IF _indices.graphics # _indices.present
                   THEN [minImageCount |-> image_count(c),
                         imageSharingMode |-> "VK_SHARING_MODE_CONCURRENT",
                         queueFamilyIndexCount |-> 3]
                   ELSE [minImageCount |-> image_count(c),
                         imageSharingMode |-> "VK_SHARING_MODE_CONCURRENT",
                         queueFamilyIndexCount |-> 2]
    /\ dpc' = "swapchain_info"
    /\ UNCHANGED << properties, family, _indices, queue_infos, engineVars, uploadVars, memVars, pipeVars >>

\* init_vulkan starts resolving the queue families of some device.
DeviceInit ==
    /\ EngineInit
    /\ properties \in FamilyTables
    /\ family = 0
    /\ _indices = [graphics |-> NULLOPT, transfer |-> NULLOPT, present |-> NULLOPT]
    /\ queue_infos = << >>
    /\ surface_capabilities = UNINITIALIZED
    /\ swapchain_info = UNINITIALIZED
    /\ dpc = "find_queue_indices"
    /\ UploadIdle
    /\ MemoryIdle
    /\ PipelineIdle

DeviceNext ==
    \/ FindQueueIndicesLoop
    \/ FindQueueIndicesReturn
    \/ InitIncompleteIndices
    \/ InitCreateDevice
    \/ CreateSwapchainInfo

\* The device context part of init_vulkan, for every queue family table.
DeviceSpec == DeviceInit /\ [][DeviceNext]_vars

\* ------------------------------------------- upload (submit_vertex_data)
Buffer(owner, size) == [kind |-> "buffer", owner |-> owner, size |-> size, destroys |-> 0]
Memory(owner, size) == [kind |-> "memory", owner |-> owner, size |-> size, destroys |-> 0]

BufferLive(h) == h \in DOMAIN buffers /\ buffers[h].destroys = 0

\* vkDestroyBuffer / vkFreeMemory; a null handle is ignored.
DestroyBuffer(bs, h) ==
    IF h \in DOMAIN bs THEN [bs EXCEPT ![h].destroys = @ + 1] ELSE bs

\* The step of create_buffer that fails, or "ok".
CreateBufferOutcomes == {"ok", "vkCreateBuffer", "find_memory_type", "vkAllocateMemory"}

\* create_buffer(size, usage, properties, buffer, buffer_memory): the table
\* and the two reference parameters after the call.  A failing step returns
\* false and leaves what was created before it.
create_buffer(outcome, out, owner, size, buffer, buffer_memory) ==
    LET n == Len(buffers)
    IN  CASE outcome = "vkCreateBuffer" ->
                [ok |-> FALSE, buffers |-> buffers,
                 buffer |-> Undefined(out, buffer), memory |-> buffer_memory]
          [] outcome = "find_memory_type" ->
                [ok |-> FALSE, buffers |-> Append(buffers, Buffer(owner, size)),
                 buffer |-> n + 1, memory |-> buffer_memory]
          [] outcome = "vkAllocateMemory" ->
                [ok |-> FALSE, buffers |-> Append(buffers, Buffer(owner, size)),
                 buffer |-> n + 1, memory |-> Undefined(out, buffer_memory)]
          [] OTHER ->
                [ok |-> TRUE,
                 buffers |-> buffers \o << Buffer(owner, size), Memory(owner, size) >>,
                 buffer |-> n + 1, memory |-> n + 2]

\* The geometries a caller passes.
Counts == 1 .. MaxCount
Geometries == [vertex_count : Counts, index_count : Counts]

\* const std::uint64_t size = vertex_count * sizeof(Vertex) + index_count * sizeof(std::uint16_t)
\* The two counts are 32 bits wide and the arithmetic is done in 64 bits, so
\* it does not wrap.
upload_size(g) == g.vertex_count * sizeof_Vertex + g.index_count * sizeof_uint16_t

\* A caller calls submit_vertex_data(geometry); the two counts are stored
\* before anything else is done.
UploadCall ==
    /\ upc = "idle"
    /\ uploads < MaxUploads
    /\ uploads' = uploads + 1
    /\ \E g \in Geometries :
          /\ geometry' = g
          /\ _index_count' = g.index_count
          /\ _vertex_count' = g.vertex_count
    /\ upc' = "create_staging"
    /\ copy_done' = FALSE
    /\ upload_result' = "none"
    /\ failed_steps' = {}
    /\ commands' = << >>
    /\ UNCHANGED << buffers, staging_buffer, staging_buffer_memory, _vertex_buffer,
                    _vertex_buffer_memory, transfer_queue, last_upload,
                    engineVars, devVars, memVars, pipeVars >>

\* create_buffer(staging_buffer, staging_buffer_memory); if (!result) return
\* false; then vkMapMemory (result ignored), memcpy, vkUnmapMemory.  After a
\* failed vkMapMemory the memcpy writes through an indeterminate pointer: the
\* process crashes or goes on.
UploadCreateStaging ==
    /\ upc = "create_staging"
    /\ \E outcome \in CreateBufferOutcomes, out \in UndefinedOutputs, map_ok \in BOOLEAN :
          LET r == create_buffer(outcome, out, "staging", upload_size(geometry),
                                 staging_buffer, staging_buffer_memory)
          IN  /\ buffers' = r.buffers
              /\ staging_buffer' = r.buffer
              /\ staging_buffer_memory' = r.memory
              /\ IF ~r.ok
                    THEN /\ upc' = "idle"
                         /\ upload_result' = "false"
                         /\ failed_steps' = failed_steps \cup {"create_buffer"}
                    ELSE /\ UNCHANGED upload_result
                         /\ IF map_ok
                               THEN upc' = "create_vertex" /\ UNCHANGED failed_steps
                               ELSE /\ upc' \in {"create_vertex", "crashed"}
                                    /\ failed_steps' = failed_steps \cup {"vkMapMemory"}
    /\ UNCHANGED << uploads, _vertex_buffer, _vertex_buffer_memory, transfer_queue,
                    copy_done, geometry, _vertex_count, _index_count, last_upload,
                    commands, engineVars, devVars, memVars, pipeVars >>

\* create_buffer(_vertex_buffer, _vertex_buffer_memory); if (!result) return false;
UploadCreateVertex ==
    /\ upc = "create_vertex"
    /\ \E outcome \in CreateBufferOutcomes, out \in UndefinedOutputs :
          LET r == create_buffer(outcome, out, "vertex", upload_size(geometry),
                                 _vertex_buffer, _vertex_buffer_memory)
          IN  /\ buffers' = r.buffers
              /\ _vertex_buffer' = r.buffer
              /\ _vertex_buffer_memory' = r.memory
              /\ IF r.ok THEN /\ upc' = "submit"
                              /\ UNCHANGED << upload_result, failed_steps >>
                         ELSE /\ upc' = "idle"
                              /\ upload_result' = "false"
                              /\ failed_steps' = failed_steps \cup {"create_buffer"}
    /\ UNCHANGED << uploads, staging_buffer, staging_buffer_memory, transfer_queue,
                    copy_done, geometry, _vertex_count, _index_count, last_upload,
                    commands, engineVars, devVars, memVars, pipeVars >>

\* The calls between the second create_buffer and vkQueueWaitIdle; the result
\* of each is ignored.
SubmitSteps == {"vkAllocateCommandBuffers", "vkBeginCommandBuffer",
                "vkEndCommandBuffer", "vkQueueSubmit"}

\* The copy staging_buffer -> _vertex_buffer of size bytes is recorded in a
\* command buffer allocated for it and passed to vkQueueSubmit on
\* _transfer_queue.  When one of the calls fails no copy reaches the queue;
\* after a failed vkAllocateCommandBuffers the command buffer handle is
\* indeterminate and the process crashes or goes on.
UploadQueueSubmit ==
    /\ upc = "submit"
    /\ \E failing \in SubmitSteps \cup {"none"} :
          IF failing = "none"
             THEN /\ transfer_queue' =
                        Append(transfer_queue,
                               [src |-> staging_buffer, dst |-> _vertex_buffer,
                                size |-> upload_size(geometry)])
                  /\ upc' = "wait_idle"
                  /\ UNCHANGED failed_steps
             ELSE /\ UNCHANGED transfer_queue
                  /\ failed_steps' = failed_steps \cup {failing}
                  /\ upc' \in IF failing = "vkAllocateCommandBuffers"
                                 THEN {"wait_idle", "crashed"}
                                 ELSE {"wait_idle"}
    /\ UNCHANGED << uploads, buffers, staging_buffer, staging_buffer_memory,
                    _vertex_buffer, _vertex_buffer_memory, copy_done, upload_result,
                    geometry, _vertex_count, _index_count, last_upload, commands,
                    engineVars, devVars, memVars, pipeVars >>

\* The transfer queue executes its oldest copy.
TransferComplete ==
    /\ transfer_queue # << >>
    /\ transfer_queue' = Tail(transfer_queue)
    /\ copy_done' = TRUE
    /\ UNCHANGED << upc, uploads, buffers, staging_buffer, staging_buffer_memory,
                    _vertex_buffer, _vertex_buffer_memory, upload_result,
                    geometry, _vertex_count, _index_count, failed_steps, last_upload,
                    commands, engineVars, devVars, memVars, pipeVars >>

\* A submit_vertex_data that does not wait for the transfer queue.
UploadQueueWaitIdle_NoWait ==
    /\ upc = "wait_idle"
    /\ upc' = "free"
    /\ UNCHANGED << uploads, buffers, staging_buffer, staging_buffer_memory,
                    _vertex_buffer, _vertex_buffer_memory, transfer_queue, copy_done,
                    upload_result, geometry, _vertex_count, _index_count,
                    failed_steps, last_upload, commands, engineVars, devVars, memVars, pipeVars >>

\* vkQueueWaitIdle(_transfer_queue)
UploadQueueWaitIdle ==
    /\ upc = "wait_idle"
    /\ transfer_queue = << >>
    /\ upc' = "free"
    /\ UNCHANGED << uploads, buffers, staging_buffer, staging_buffer_memory,
                    _vertex_buffer, _vertex_buffer_memory, transfer_queue, copy_done,
                    upload_result, geometry, _vertex_count, _index_count,
                    failed_steps, last_upload, commands, engineVars, devVars, memVars, pipeVars >>

\* vkDestroyBuffer(staging_buffer); vkFreeMemory(staging_buffer_memory);
\* return true;
UploadFreeStaging ==
    /\ upc = "free"
    /\ buffers' = DestroyBuffer(DestroyBuffer(buffers, staging_buffer),
                                staging_buffer_memory)
    /\ upc' = "idle"
    /\ upload_result' = "true"
    /\ last_upload' = geometry
    /\ UNCHANGED << uploads, staging_buffer, staging_buffer_memory, _vertex_buffer,
                    _vertex_buffer_memory, transfer_queue, copy_done, geometry,
                    _vertex_count, _index_count, failed_steps, commands,
                    engineVars, devVars, memVars, pipeVars >>

Command(cmd, buffer, offset, count) ==
    [cmd |-> cmd, buffer |-> buffer, offset |-> offset, count |-> count]

\* record_command_buffer, called by draw_frame between two uploads: the
\* commands it records for the geometry.
RecordCommandBuffer ==
    /\ upc = "idle"
    /\ commands' =
          << Command("vkCmdBindVertexBuffers", _vertex_buffer, 0, 0),
             Command("vkCmdBindIndexBuffer", _vertex_buffer,
                     _vertex_count * sizeof_Vertex, 0),
             Command("vkCmdDrawIndexed", VK_NULL_HANDLE, 0, _index_count) >>
    /\ UNCHANGED << upc, uploads, buffers, staging_buffer, staging_buffer_memory,
                    _vertex_buffer, _vertex_buffer_memory, transfer_queue, copy_done,
                    upload_result, geometry, _vertex_count, _index_count,
                    failed_steps, last_upload, engineVars, devVars, memVars, pipeVars >>

\* ~Engine: vkDestroyBuffer(_vertex_buffer); vkFreeMemory(_vertex_buffer_memory);
UploadDtor ==
    /\ upc = "idle"
    /\ buffers' = DestroyBuffer(DestroyBuffer(buffers, _vertex_buffer),
                                _vertex_buffer_memory)
    /\ upc' = "destroyed"
    /\ UNCHANGED << uploads, staging_buffer, staging_buffer_memory, _vertex_buffer,
                    _vertex_buffer_memory, transfer_queue, copy_done, upload_result,
                    geometry, _vertex_count, _index_count, failed_steps, last_upload,
                    commands, engineVars, devVars, memVars, pipeVars >>

UploadNext ==
    \/ UploadCall
    \/ UploadCreateStaging
    \/ UploadCreateVertex
    \/ UploadQueueSubmit
    \/ TransferComplete
    \/ UploadQueueWaitIdle
    \/ UploadFreeStaging
    \/ RecordCommandBuffer
    \/ UploadDtor

\* Calls of submit_vertex_data on an initialized engine, frames recorded
\* between them, then the destructor.
UploadSpec == Init /\ [][UploadNext]_vars

\* ------------------------------------------- memory types (find_memory_type)
\* Bit b of the unsigned value x.
Bit(x, b) == (x \div 2^b) % 2

\* a & b over the low n bits.
RECURSIVE BitAnd(_, _, _)
BitAnd(a, b, n) ==
    IF n = 0 THEN 0
    ELSE (a % 2) * (b % 2) + 2 * BitAnd(a \div 2, b \div 2, n - 1)

\* bool correct_type = filter & (1 << i);
correct_type(f, i) == BitAnd(f, 2^i, MaxTypes) # 0

\* A test that accepts a type with any one of the requested properties.
has_property_Any(flags, requested) == BitAnd(flags, requested, MaxFlagBits) # 0

\* bool has_property = (propertyFlags & properties) == properties;
has_property(flags, requested) == BitAnd(flags, requested, MaxFlagBits) = requested

PropertyFlags == 0 .. (2^MaxFlagBits - 1)
MemoryTables == UNION {[1 .. n -> PropertyFlags] : n \in 0 .. MaxTypes}

\* One iteration of the loop of find_memory_type over type i (0-based).
FindMemoryTypeLoop ==
    /\ mpc = "find_memory_type"
    /\ type_i < Len(mem_properties)
    /\ IF correct_type(filter, type_i)
          /\ has_property(mem_properties[type_i + 1], property_flags)
          THEN /\ memory_index' = type_i
               /\ mpc' = "true"
               /\ UNCHANGED type_i
          ELSE /\ type_i' = type_i + 1
               /\ UNCHANGED << memory_index, mpc >>
    /\ UNCHANGED << mem_properties, filter, property_flags, engineVars, devVars,
                    uploadVars, pipeVars >>

\* The loop ends with i = memoryTypeCount: return false, memory_index untouched.
FindMemoryTypeFail ==
    /\ mpc = "find_memory_type"
    /\ type_i = Len(mem_properties)
    /\ mpc' = "false"
    /\ UNCHANGED << mem_properties, filter, property_flags, type_i, memory_index,
                    engineVars, devVars, uploadVars, pipeVars >>

\* find_memory_type is called for some device, filter and property set.
MemoryInit ==
    /\ EngineInit
    /\ DeviceReady
    /\ UploadIdle
    /\ mem_properties \in MemoryTables
    /\ filter \in 0 .. (2^MaxTypes - 1)
    /\ property_flags \in PropertyFlags
    /\ type_i = 0
    /\ memory_index = UNINITIALIZED
    /\ mpc = "find_memory_type"
    /\ PipelineIdle

MemoryNext ==
    \/ FindMemoryTypeLoop
    \/ FindMemoryTypeFail

\* find_memory_type over every table, filter and requested property set.
MemorySpec == MemoryInit /\ [][MemoryNext]_vars

\* ------------------------------------------------ pipeline (create_pipeline)
\* What happens to the file of a ShaderInfo: CreateFile fails, ReadFile
\* fails, or the code is read.
ShaderFiles == {"missing", "unreadable", "read"}
ShaderLists == UNION {[1 .. n -> ShaderFiles] : n \in 0 .. MaxShaders}

\* A handle this call creates; PreviousHandle is one an earlier call left.
PreviousHandle == 1
NewHandle == 2

otherVars == << engineVars, devVars, uploadVars, memVars >>

\* A create_pipeline without the test for an empty list.
PipelineCheckEmpty_NoCheck ==
    /\ ppc = "create_pipeline"
    /\ ppc' = "shaders"
    /\ shader_modules' = [i \in 1 .. Len(shaders) |-> VK_NULL_HANDLE]
    /\ UNCHANGED << shaders, shader_i, shader_stages, modules, files_opened,
                    _pipeline_layout, _pipeline, otherVars >>

\* if (shaders.empty()) return false; otherwise shader_modules gets one null
\* handle per entry.
PipelineCheckEmpty ==
    /\ ppc = "create_pipeline"
    /\ IF shaders = << >>
          THEN ppc' = "false" /\ UNCHANGED shader_modules
          ELSE /\ ppc' = "shaders"
               /\ shader_modules' = [i \in 1 .. Len(shaders) |-> VK_NULL_HANDLE]
    /\ UNCHANGED << shaders, shader_i, shader_stages, modules, files_opened,
                    _pipeline_layout, _pipeline, otherVars >>

\* A loop that gives up at a file it cannot open.
OnMissingFile_Return == "return false"

\* if (file == INVALID_HANDLE_VALUE) { ...; continue; }
OnMissingFile == "continue"

\* One iteration of the loop over shaders[i] (0-based).
PipelineShaderLoop ==
    /\ ppc = "shaders"
    /\ shader_i < Len(shaders)
    /\ LET file == shaders[shader_i + 1]
       IN  CASE file = "missing" ->
                   /\ IF OnMissingFile = "continue"
                         THEN shader_i' = shader_i + 1 /\ UNCHANGED ppc
                         ELSE ppc' = "false" /\ UNCHANGED shader_i
                   /\ UNCHANGED << shader_modules, shader_stages, modules, files_opened >>
             [] file = "unreadable" ->
                   /\ files_opened' = files_opened + 1
                   /\ shader_i' = shader_i + 1
                   /\ UNCHANGED << ppc, shader_modules, shader_stages, modules >>
             [] OTHER ->
                   /\ files_opened' = files_opened + 1
                   /\ \E created \in BOOLEAN :
                         IF created
                            THEN /\ modules' = Append(modules, 0)
                                 /\ shader_modules' =
                                       [shader_modules EXCEPT ![shader_i + 1] = Len(modules) + 1]
                                 /\ shader_stages' = Append(shader_stages, Len(modules) + 1)
                                 /\ shader_i' = shader_i + 1
                                 /\ UNCHANGED ppc
                            ELSE /\ ppc' = "false"
                                 /\ UNCHANGED << shader_i, shader_modules, shader_stages,
                                                 modules >>
    /\ UNCHANGED << shaders, _pipeline_layout, _pipeline, otherVars >>

\* The loop ends with i = shaders.size().
PipelineShadersDone ==
    /\ ppc = "shaders"
    /\ shader_i = Len(shaders)
    /\ ppc' = "layout"
    /\ UNCHANGED << shaders, shader_i, shader_modules, shader_stages, modules,
                    files_opened, _pipeline_layout, _pipeline, otherVars >>

\* vkCreatePipelineLayout(..., &_pipeline_layout)
PipelineCreateLayout ==
    /\ ppc = "layout"
    /\ \E ok \in BOOLEAN, out \in UndefinedOutputs :
          IF ok THEN _pipeline_layout' = NewHandle /\ ppc' = "pipeline"
                ELSE /\ _pipeline_layout' = Undefined(out, _pipeline_layout)
                     /\ ppc' = "false"
    /\ UNCHANGED << shaders, shader_i, shader_modules, shader_stages, modules,
                    files_opened, _pipeline, otherVars >>

\* pipeline_info.stageCount
stageCount == 2

\* vkCreateGraphicsPipelines with stageCount = 2 and pStages =
\* shader_stages.data().  With fewer than two stages pushed the call reads
\* past the end of the vector: it may succeed, fail or crash.
PipelineCreatePipeline ==
    /\ ppc = "pipeline"
    /\ \E outcome \in {"created", "failed", "crashed"}, out \in UndefinedOutputs :
          /\ outcome = "crashed" => Len(shader_stages) < stageCount
          /\ CASE outcome = "created" ->
                      _pipeline' = NewHandle /\ ppc' = "destroy_modules"
               [] outcome = "failed" ->
                      _pipeline' = Undefined(out, _pipeline) /\ ppc' = "false"
               [] OTHER ->
                      UNCHANGED _pipeline /\ ppc' = "crashed"
    /\ UNCHANGED << shaders, shader_i, shader_modules, shader_stages, modules,
                    files_opened, _pipeline_layout, otherVars >>

RECURSIVE DestroyModules(_, _)
DestroyModules(ms, list) ==
    IF list = << >> THEN ms
    ELSE DestroyModules(IF Head(list) \in DOMAIN ms
                           THEN [ms EXCEPT ![Head(list)] = @ + 1] ELSE ms,
                        Tail(list))

\* A create_pipeline that returns true with its modules alive.
PipelineDestroyModules_Keep ==
    /\ ppc = "destroy_modules"
    /\ ppc' = "true"
    /\ UNCHANGED << shaders, shader_i, shader_modules, shader_stages, modules,
                    files_opened, _pipeline_layout, _pipeline, otherVars >>

\* for (auto mod : shader_modules) vkDestroyShaderModule(_device, mod, nullptr);
\* return true;
PipelineDestroyModules ==
    /\ ppc = "destroy_modules"
    /\ modules' = DestroyModules(modules, shader_modules)
    /\ ppc' = "true"
    /\ UNCHANGED << shaders, shader_i, shader_modules, shader_stages,
                    files_opened, _pipeline_layout, _pipeline, otherVars >>

\* create_pipeline(shaders) is called on an engine whose pipeline is null or
\* was created by an earlier call.
PipelineInit ==
    /\ EngineInit
    /\ DeviceReady
    /\ UploadIdle
    /\ MemoryIdle
    /\ shaders \in ShaderLists
    /\ shader_i = 0
    /\ shader_modules = << >>
    /\ shader_stages = << >>
    /\ modules = << >>
    /\ files_opened = 0
    /\ \E previous \in {VK_NULL_HANDLE, PreviousHandle} :
          _pipeline_layout = previous /\ _pipeline = previous
    /\ ppc = "create_pipeline"

PipelineNext ==
    \/ PipelineCheckEmpty
    \/ PipelineShaderLoop
    \/ PipelineShadersDone
    \/ PipelineCreateLayout
    \/ PipelineCreatePipeline
    \/ PipelineDestroyModules

\* One call of create_pipeline, for every shader list.
PipelineSpec == PipelineInit /\ [][PipelineNext]_vars

\* ------------------------------------------------ consecutive rebuilds
\* What a recreate_swapchain call leaves: the sizes of the three vectors, the
\* width and height of the framebuffers in _framebuffers, the window's
\* extent, and whether one of its three create calls failed.
Rebuilt ==
    [ images       |-> Len(_images),
      views        |-> Len(_image_views),
      framebuffers |-> Len(_framebuffers),
      sizes        |-> {<< handles[f].w, handles[f].h >> :
                           f \in {g \in Range(_framebuffers) : Live(g)}},
      window       |-> win,
      failed       |-> Top.failed ]

\* return true; with what the call left put on record.
RebuildReturn ==
    /\ AtFrame("return")
    /\ rebuilt' = Append(rebuilt, Rebuilt)
    /\ stack' = SubSeq(stack, 1, Len(stack) - 1)
    /\ UNCHANGED << devVars, uploadVars, memVars, pipeVars, pc, winVars, swapVars,
                    loopVars, fails, frames >>

\* init_vulkan, then glfwPollEvents delivering size events one after the
\* other: each runs recreate_swapchain, with no frame in between.
RebuildNext ==
    \/ InitCreateSwapchain
    \/ InitCreateImageViews
    \/ InitCreateFramebuffers
    \/ RunContinue
    \/ PollDeliver
    \/ RecreateGetSize
    \/ RecreateLoopGetSize
    \/ WaitDeliver
    \/ WaitReturn
    \/ RecreateDeviceWaitIdle
    \/ RecreateDestroyFramebuffers
    \/ RecreateDestroyImageViews
    \/ RecreateDestroySwapchain
    \/ RecreateCreateSwapchain
    \/ RecreateCreateImageViews
    \/ RecreateCreateFramebuffers
    \/ RebuildReturn

RebuildSpec == Init /\ [][RebuildNext]_vars

\* --------------------------------------------------- counted iterations
\* A draw_frame that leaves current_frame as it is.
CountedQueuePresent_Stay ==
    /\ AtMain("draw_present")
    /\ frames < MaxFrames
    /\ presents[current_frame] < MaxPresents
    /\ presents' = [presents EXCEPT ![current_frame] = @ + 1]
    /\ current_frame' = current_frame
    /\ frames' = frames + 1
    /\ image_index' = UNINITIALIZED
    /\ acquire_result' = "none"
    /\ pc' = "run"
    /\ UNCHANGED << devVars, uploadVars, memVars, pipeVars, rebuilt, stack, winVars,
                    swapVars, _inflight_fences, pending, _image_available_semaphores,
                    _render_finished_semaphores, fails >>

\* vkQueuePresentKHR and current_frame = (current_frame + 1) % max_frames_in_flight,
\* with the execution of draw_frame that ends here counted.
CountedQueuePresent ==
    /\ AtMain("draw_present")
    /\ frames < MaxFrames
    /\ presents[current_frame] < MaxPresents
    /\ presents' = [presents EXCEPT ![current_frame] = @ + 1]
    /\ current_frame' = (current_frame + 1) % max_frames_in_flight
    /\ frames' = frames + 1
    /\ image_index' = UNINITIALIZED
    /\ acquire_result' = "none"
    /\ pc' = "run"
    /\ UNCHANGED << devVars, uploadVars, memVars, pipeVars, rebuilt, stack, winVars,
                    swapVars, _inflight_fences, pending, _image_available_semaphores,
                    _render_finished_semaphores, fails >>

\* init_vulkan and the loop of run(), its iterations counted.
SlotNext ==
    \/ InitCreateSwapchain
    \/ InitCreateImageViews
    \/ InitCreateFramebuffers
    \/ RunContinue
    \/ PollReturn
    \/ WaitForFences
    \/ AcquireNextImage
    \/ ResetAndRecord
    \/ QueueSubmit
    \/ CountedQueuePresent
    \/ GpuComplete
    \/ PresentEngine

SlotSpec == Init /\ [][SlotNext]_vars

\* ------------------------------------------------------ requested size
\* The width the caller passes to the Engine constructor: glfwCreateWindow
\* takes it as a request, and the surface may report another extent.
RequestedWidths == 1 .. (MaxDim + 1)

\* Engine::Engine(width, height) with any requested size; what
\* glfwGetFramebufferSize and the surface report is win.
ExtentInit ==
    /\ pc = "init_swapchain"
    /\ stack = << >>
    /\ win \in (Widths \ {0}) \X (Heights \ {0})
    /\ _width \in RequestedWidths
    /\ _height \in Heights \ {0}
    /\ _swapchain = VK_NULL_HANDLE
    /\ _images = << >>
    /\ _image_views = << >>
    /\ _framebuffers = << >>
    /\ handles = << >>
    /\ current_frame = 0
    /\ _inflight_fences = [i \in Slots |-> TRUE]
    /\ pending = [i \in Slots |-> 0]
    /\ image_index = UNINITIALIZED
    /\ acquire_result = "none"
    /\ _image_available_semaphores = [i \in Slots |-> FALSE]
    /\ _render_finished_semaphores = [i \in Slots |-> FALSE]
    /\ presents = [i \in Slots |-> 0]
    /\ resizes = 0
    /\ fails = 0
    /\ rebuilt = << >>
    /\ frames = 0
    /\ DeviceReady
    /\ UploadIdle
    /\ MemoryIdle
    /\ PipelineIdle

\* init_vulkan, then size events and the rebuilds they start.
ExtentNext ==
    \/ InitCreateSwapchain
    \/ InitCreateImageViews
    \/ InitCreateFramebuffers
    \/ RunContinue
    \/ PollDeliver
    \/ RecreateGetSize
    \/ RecreateLoopGetSize
    \/ WaitDeliver
    \/ WaitReturn
    \/ RecreateDeviceWaitIdle
    \/ RecreateDestroyFramebuffers
    \/ RecreateDestroyImageViews
    \/ RecreateDestroySwapchain
    \/ RecreateCreateSwapchain
    \/ RecreateCreateImageViews
    \/ RecreateCreateFramebuffers
    \/ RecreateReturn

ExtentSpec == ExtentInit /\ [][ExtentNext]_vars

\* The whole program started with any requested size.
ExtentFrameSpec == ExtentInit /\ [][Next]_vars

\* record_command_buffer: pass_info.renderArea.extent, the VkViewport's
\* width and height, and the scissor's extent.
renderArea == << _width, _height >>
viewport   == << _width, _height >>
scissor    == << _width, _height >>

\* ========================================================== properties

\* C1: the command buffer of slot i is reset and re-recorded only while slot
\* i's fence is signaled and no submission of that buffer is pending: from
\* the return of vkWaitForFences to vkResetCommandBuffer/record the previous
\* submission of the slot is complete.
C1_RecordOnlyWhenSlotIdle ==
    (AtMain("draw_acquire") \/ AtMain("draw_record"))
        => (_inflight_fences[current_frame] /\ pending[current_frame] = 0)

\* Slot 0 is about to be re-recorded for its second use while the frame of
\* slot 1 is still on the GPU.
C1_Witness ==
    /\ AtMain("draw_record")
    /\ current_frame = 0
    /\ pending[1] = 1
    /\ ~_inflight_fences[1]

\* C2: each slot's fence goes signaled -> unsignaled (vkResetFences of that
\* slot, by the host, when the slot is current) -> signaled (the GPU
\* completing the slot's submission) and so on; a slot has at most one
\* incomplete submission and its fence is unsignaled meanwhile, so at most
\* max_frames_in_flight submissions are incomplete at any time.
FenceStep ==
    \A i \in Slots :
        /\ (_inflight_fences[i] /\ ~_inflight_fences'[i])
              => (AtMain("draw_record") /\ i = current_frame /\ pending[i] = 0)
        /\ (~_inflight_fences[i] /\ _inflight_fences'[i])
              => (pending[i] = 1 /\ pending'[i] = 0)
        /\ pending'[i] > pending[i]
              => (~_inflight_fences[i] /\ pending[i] = 0 /\ i = current_frame)

InFlightBound ==
    /\ \A i \in Slots : pending[i] <= 1 /\ (pending[i] = 1 => ~_inflight_fences[i])
    /\ Cardinality({i \in Slots : pending[i] > 0}) <= max_frames_in_flight

C2_FenceCycle == [](InFlightBound) /\ [][FenceStep]_vars

\* Both slots are in flight: max_frames_in_flight fences unsignaled at once.
C2_Witness ==
    \A i \in Slots : pending[i] = 1 /\ ~_inflight_fences[i]

\* C3: an out-of-date or suboptimal result of vkAcquireNextImageKHR leads to
\* recreate_swapchain before anything is recorded or submitted for that
\* frame: draw_frame never gets past the acquire with such a result.
C3_AcquireResultHandled ==
    (AtMain("draw_submit") \/ AtMain("draw_present"))
        => acquire_result \notin {"out_of_date", "suboptimal"}

\* C4: every swapchain, image view and framebuffer handle ever created is
\* destroyed exactly once: never twice, and none is left when ~Engine is over.
C4_DestroyedExactlyOnce ==
    /\ \A h \in DOMAIN handles : handles[h].destroys <= 1
    /\ pc = "done" => \A h \in DOMAIN handles : handles[h].destroys = 1

\* C5: when draw_frame starts, _images, _image_views and _framebuffers have
\* the same length and the swapchain and every view and framebuffer in them
\* is a live handle.
EngineHandles == {_swapchain} \cup Range(_image_views) \cup Range(_framebuffers)

C5_ListsLiveAtDrawFrame ==
    AtMain("draw_wait")
        => /\ Len(_image_views) = Len(_images)
           /\ Len(_framebuffers) = Len(_images)
           /\ \A h \in EngineHandles : Live(h)

\* C6: recreate_swapchain destroys nothing while a submitted frame is still
\* executing: in every activation that is between vkDeviceWaitIdle and the
\* end of cleanup_swapchain the device is idle.
CleanupPcs == {"cleanup_framebuffers", "cleanup_views", "cleanup_swapchain"}

C6_IdleBeforeDestroy ==
    \A i \in DOMAIN stack : stack[i].pc \in CleanupPcs => DeviceIdle

\* recreate_swapchain is about to destroy live framebuffers after a frame of
\* slot 0 was submitted and has completed.
C6_Witness ==
    /\ AtFrame("cleanup_framebuffers")
    /\ current_frame = 1
    /\ _inflight_fences[0]
    /\ \E i \in DOMAIN _framebuffers : Live(_framebuffers[i])

\* C7: after a size event that reports zero area, recreate_swapchain tears
\* nothing down and rebuilds nothing until it has read a framebuffer size with
\* both dimensions > 0, also when further size events are delivered inside
\* its glfwWaitEvents: every activation at or past vkDeviceWaitIdle holds a
\* width and a height > 0, and the window has that area.
RebuildPcs == {"wait_idle", "create_swapchain", "create_views",
               "create_framebuffers", "return"} \cup CleanupPcs

C7_NoRebuildAtZeroArea ==
    \A i \in DOMAIN stack :
        stack[i].pc \in RebuildPcs
            => /\ stack[i].width > 0 /\ stack[i].height > 0
               /\ win[1] > 0 /\ win[2] > 0

\* The activation of a zero-area event is still waiting in glfwWaitEvents; a
\* size event delivered inside that wait reported an area, and its own
\* activation has started the teardown.
C7_Witness ==
    /\ Len(stack) = 2
    /\ stack[1].pc = "wait_events"
    /\ ShouldWait(stack[1].width, stack[1].height)
    /\ stack[2].pc = "cleanup_framebuffers"

\* C8: when a sub-step of recreate_swapchain fails, the sub-steps after it
\* are not attempted and the function does not reach its return true.
C8_FailureStopsRebuild ==
    \A i \in DOMAIN stack :
        stack[i].failed
            => stack[i].pc \notin {"create_views", "create_framebuffers", "return"}

\* C9: after a failed build (init_vulkan) or rebuild (recreate_swapchain) the
\* engine holds no object of the attempt: no live swapchain, view or
\* framebuffer is left in its fields.
C9_NoPartialState ==
    (AtMain("init_failed") \/ (AtFrame("return") /\ Top.failed))
        => \A h \in EngineHandles : ~Live(h)

\* C10: teardown destroys the framebuffers, then the image views, then the
\* swapchain, so no image view exists once its swapchain is destroyed and no
\* framebuffer exists once its image view is destroyed.
C10_NoOrphans ==
    \A h \in DOMAIN handles :
        (Live(h) /\ handles[h].kind \in {"view", "framebuffer"})
            => Live(handles[h].ref)

\* C11: once run() has seen the close signal it waits for the device to be
\* idle before it returns, so while ~Engine destroys the swapchain resources
\* (and after) no submission is in flight.
DtorPcs == {"dtor_framebuffers", "dtor_views", "dtor_swapchain", "done"}

C11_IdleAtShutdown == (stack = << >> /\ pc \in DtorPcs) => DeviceIdle

\* ~Engine starts after a loop in which the frame of slot 0 was submitted
\* and has completed, with framebuffers still to destroy.
C11_Witness ==
    /\ AtMain("dtor_framebuffers")
    /\ current_frame = 1
    /\ _inflight_fences[0]
    /\ \E i \in DOMAIN _framebuffers : Live(_framebuffers[i])

\* C12: whatever failed in earlier iterations, with a GPU that completes every
\* accepted submission each wait on a slot's fence returns, and after the
\* close signal run() returns.
C12_LoopNeverBlocks ==
    /\ AtMain("draw_wait") ~> AtMain("draw_acquire")
    /\ AtMain("run_wait_idle") ~> AtMain("dtor_framebuffers")

\* C13: acquire -> render -> present through the slot's two semaphores.
\* _image_available_semaphores[i] is signaled only by the acquire of slot i
\* and unsignaled only by the slot's submission running; that submission
\* signals _render_finished_semaphores[i] together with the fence; a present
\* of slot i executes only on the signaled _render_finished_semaphores[i],
\* and when it is the only present queued on the slot, only after the
\* submission of its iteration has completed.
Submitting(i) == AtMain("draw_submit") /\ current_frame = i
Presenting(i) == AtMain("draw_present") /\ current_frame = i

SemaphoreStep ==
    \A i \in Slots :
        /\ (~_image_available_semaphores[i] /\ _image_available_semaphores'[i])
              => (AtMain("draw_acquire") /\ current_frame = i)
        /\ (_image_available_semaphores[i] /\ ~_image_available_semaphores'[i])
              => pending'[i] < pending[i]
        /\ (~_render_finished_semaphores[i] /\ _render_finished_semaphores'[i])
              => (pending'[i] < pending[i] /\ _inflight_fences'[i])
        /\ (_render_finished_semaphores[i] /\ ~_render_finished_semaphores'[i])
              => presents'[i] < presents[i]
        /\ presents'[i] < presents[i]
              => /\ _render_finished_semaphores[i]
                 /\ (presents[i] = 1 /\ ~Submitting(i) /\ ~Presenting(i))
                       => (pending[i] = 0 /\ _inflight_fences[i])

C13_AcquireRenderPresent == [][SemaphoreStep]_vars

\* The present of slot 0 is queued and waits: the rendering submitted for its
\* image, itself released by the acquire's semaphore, has not finished.
C13_Witness ==
    /\ presents[0] = 1
    /\ pending[0] = 1
    /\ _image_available_semaphores[0]
    /\ ~_render_finished_semaphores[0]

\* C14: for every queue family table, init_vulkan fails with incomplete
\* queue support if and only if one of the roles graphics, present, transfer
\* has no family in the table with that capability.
Roles == {"graphics", "transfer", "present_support"}
HasFamily(role) == \E i \in DOMAIN properties : properties[i][role]
IndicesChecked == dpc \notin {"find_queue_indices", "init_indices"}

C14_IncompleteIff ==
    IndicesChecked => (dpc = "incomplete" <=> \E role \in Roles : ~HasFamily(role))

\* C15: when the resolution succeeds, the graphics index is the lowest index
\* of a family with graphics capability and the present index the lowest
\* index of a family with present support.
Lowest(role) ==
    CHOOSE i \in 0 .. Len(properties) - 1 :
        /\ properties[i + 1][role]
        /\ \A j \in 0 .. i - 1 : ~properties[j + 1][role]

C15_LowestIndexed ==
    (IndicesChecked /\ is_complete(_indices))
        => /\ _indices.graphics = Lowest("graphics")
           /\ _indices.present = Lowest("present_support")

\* C16: the entries passed to vkCreateDevice name exactly the resolved
\* families, each family once.
DeviceRequested == dpc \in {"create_swapchain", "device_failed", "swapchain_info"}

C16_EntriesDeduplicated ==
    DeviceRequested
        => /\ Range(queue_infos) = {_indices.graphics, _indices.transfer, _indices.present}
           /\ \A i, j \in DOMAIN queue_infos : queue_infos[i] = queue_infos[j] => i = j

\* C17: the swapchain is created with concurrent sharing exactly when the
\* graphics and present families differ, with exclusive sharing otherwise.
C17_SharingMode ==
    dpc = "swapchain_info"
        => swapchain_info.imageSharingMode =
              IF _indices.graphics # _indices.present
                 THEN "VK_SHARING_MODE_CONCURRENT"
                 ELSE "VK_SHARING_MODE_EXCLUSIVE"

\* C18: the image count requested is minImageCount + 1 when there is no
\* maximum or the maximum allows it, and maxImageCount otherwise; it is
\* never below the minimum nor above a nonzero maximum.
C18_ImageCount ==
    dpc = "swapchain_info"
        => LET min == surface_capabilities.minImageCount
               max == surface_capabilities.maxImageCount
               n == swapchain_info.minImageCount
           IN  /\ n = IF max = 0 \/ min + 1 <= max THEN min + 1 ELSE max
               /\ n >= min
               /\ max > 0 => n <= max

\* A surface whose maximum forces the clamp.
C18_Witness ==
    /\ dpc = "swapchain_info"
    /\ surface_capabilities.maxImageCount > 0
    /\ surface_capabilities.minImageCount + 1 > surface_capabilities.maxImageCount
    /\ swapchain_info.minImageCount = surface_capabilities.maxImageCount

\* C19: whenever submit_vertex_data has returned, with true or with false,
\* every staging buffer and staging memory it created has been released.
Staging == {h \in DOMAIN buffers : buffers[h].owner = "staging"}

C19_StagingReleased ==
    upc \in {"idle", "destroyed"} => \A h \in Staging : buffers[h].destroys > 0

\* C20: the staging buffer and memory are released only after the copy was
\* passed to the transfer queue and the queue is idle; no copy is pending on
\* a destroyed staging buffer, and submit_vertex_data does not return true
\* with a copy pending.
StagingReleaseStep ==
    /\ (\E h \in Staging : buffers'[h].destroys > buffers[h].destroys)
          => (upc = "free" /\ transfer_queue = << >>)
    /\ \A k \in DOMAIN transfer_queue' :
          /\ transfer_queue'[k].src \in DOMAIN buffers'
          /\ buffers'[transfer_queue'[k].src].destroys = 0
    /\ (upc # "idle" /\ upc' = "idle" /\ upload_result' = "true")
          => transfer_queue' = << >>

Geometry == {h \in DOMAIN buffers : buffers[h].owner = "vertex"}

\* Every call so far created its four objects and returned true.
AllUploadsSucceeded ==
    /\ upc \in {"idle", "destroyed"}
    /\ uploads > 0
    /\ Len(buffers) = 4 * uploads
    /\ upload_result = "true"

C21_OneGeometryBuffer ==
    AllUploadsSucceeded
        => /\ Cardinality({h \in Geometry : buffers[h].kind = "buffer"
                                            /\ buffers[h].destroys = 0}) <= 1
           /\ upc = "destroyed" => \A h \in Geometry : buffers[h].destroys = 1

\* C22: the staging buffer, the destination buffer and the copy of an upload
\* of v vertices and k indices all have v * sizeof(Vertex) + k * 2 bytes, and
\* every frame recorded after the upload binds the vertex region at offset 0
\* and the index region at offset v * sizeof(Vertex) of the destination
\* buffer.
UploadSizes ==
    LET size == geometry.vertex_count * sizeof_Vertex + geometry.index_count * 2
    IN  /\ upc \in {"create_vertex", "submit", "wait_idle", "free"}
              => buffers[staging_buffer].size = size
        /\ upc \in {"submit", "wait_idle", "free"}
              => buffers[_vertex_buffer].size = size
        /\ upc = "wait_idle"
              => \A i \in DOMAIN transfer_queue : transfer_queue[i].size = size

SomeUploadSucceeded == last_upload.vertex_count > 0

FrameOffsets ==
    (commands # << >> /\ SomeUploadSucceeded)
        => /\ commands[1].cmd = "vkCmdBindVertexBuffers"
           /\ commands[1].offset = 0
           /\ commands[2].cmd = "vkCmdBindIndexBuffer"
           /\ commands[2].buffer = commands[1].buffer
           /\ commands[2].offset = last_upload.vertex_count * sizeof_Vertex

C22_SizesAndOffsets == UploadSizes /\ FrameOffsets

\* C23: the index count (and the vertex count) used by a frame recorded
\* after any sequence of uploads is that of the most recent upload that
\* returned true; a failed upload leaves both counts as they were.
C23_CountsOfLastSuccess ==
    upc = "idle"
        => /\ _index_count = last_upload.index_count
           /\ _vertex_count = last_upload.vertex_count
           /\ commands # << >> => commands[3].count = last_upload.index_count

\* C24: a frame recorded when no upload has succeeded binds no vertex or
\* index buffer and issues a non-indexed draw of 3 vertices; buffers are
\* bound and an indexed draw is issued only after an upload.
Recorded(cmd) == \E i \in DOMAIN commands : commands[i].cmd = cmd

C24_FallbackDraw ==
    commands # << >>
        => IF SomeUploadSucceeded
              THEN Recorded("vkCmdDrawIndexed")
              ELSE /\ ~Recorded("vkCmdBindVertexBuffers")
                   /\ ~Recorded("vkCmdBindIndexBuffer")
                   /\ ~Recorded("vkCmdDrawIndexed")
                   /\ \E i \in DOMAIN commands :
                         commands[i].cmd = "vkCmdDraw" /\ commands[i].count = 3

\* C25: submit_vertex_data returns true only if none of its sub-steps
\* failed, and once a sub-step has failed it does nothing more than return
\* false.
UploadPcs == {"create_staging", "create_vertex", "submit", "wait_idle", "free"}

C25_FailurePropagates ==
    /\ (upc = "idle" /\ upload_result = "true") => failed_steps = {}
    /\ upc \in UploadPcs => failed_steps = {}

\* C26: find_memory_type returns the lowest index whose bit is set in the
\* filter and whose property flags include every requested property, and
\* returns false exactly when there is no such index.
Suitable(i) ==
    /\ i \in 0 .. Len(mem_properties) - 1
    /\ Bit(filter, i) = 1
    /\ \A b \in 0 .. MaxFlagBits - 1 :
          Bit(property_flags, b) = 1 => Bit(mem_properties[i + 1], b) = 1

C26_LowestSuitableType ==
    /\ mpc = "true" => /\ Suitable(memory_index)
                       /\ \A j \in 0 .. memory_index - 1 : ~Suitable(j)
    /\ mpc = "false" => /\ \A j \in 0 .. Len(mem_properties) - 1 : ~Suitable(j)
                        /\ memory_index = UNINITIALIZED

\* The search passed over type 0 and returned a later type that has both of
\* two requested properties.
C26_Witness ==
    /\ mpc = "true"
    /\ memory_index > 0
    /\ Bit(filter, 0) = 1
    /\ property_flags = 3

\* C27: create_pipeline with an empty shader list returns false at once: it
\* opens no file, creates no shader module, layout or pipeline, and leaves
\* _pipeline and _pipeline_layout as they were.
EmptyListStep ==
    (shaders = << >> /\ ppc = "create_pipeline")
        => /\ ppc' = "false"
           /\ UNCHANGED << files_opened, modules, shader_modules, shader_stages,
                           _pipeline_layout, _pipeline >>

C27_EmptyListFailsFast == [][EmptyListStep]_vars

\* The call with an empty list has returned false on an engine that had a
\* pipeline, and nothing was opened or created.
C27_Witness ==
    /\ shaders = << >>
    /\ ppc = "false"
    /\ _pipeline = PreviousHandle
    /\ _pipeline_layout = PreviousHandle
    /\ files_opened = 0
    /\ modules = << >>

\* C28: an entry whose file cannot be opened is skipped: the loop goes on
\* with the next entry, in list order, the call returns false inside the
\* loop only at an entry whose file was read, and after the last entry it
\* goes on to create the layout and the pipeline.
MissingFileStep ==
    /\ (ppc = "shaders" /\ shader_i < Len(shaders) /\ shaders[shader_i + 1] = "missing")
          => /\ ppc' = "shaders"
             /\ shader_i' = shader_i + 1
             /\ UNCHANGED << modules, shader_modules, shader_stages, files_opened >>
    /\ (ppc = "shaders" /\ shader_i' # shader_i) => shader_i' = shader_i + 1
    /\ (ppc = "shaders" /\ ppc' = "false") => shaders[shader_i + 1] = "read"
    /\ (ppc = "shaders" /\ ppc' # "shaders" /\ ppc' # "false")
          => (ppc' = "layout" /\ shader_i = Len(shaders))
    /\ (ppc = "layout" /\ ppc' # "false") => ppc' = "pipeline"

C28_MissingFileSkipped == [][MissingFileStep]_vars

\* The first file was missing, the module of the second entry was created,
\* and the call has reached vkCreateGraphicsPipelines.
C28_Witness ==
    /\ ppc = "pipeline"
    /\ Len(shaders) = 2
    /\ shaders[1] = "missing"
    /\ shader_modules[1] = VK_NULL_HANDLE
    /\ shader_modules[2] # VK_NULL_HANDLE

\* C29: when create_pipeline has returned true every shader module it
\* created has been destroyed exactly once, and none is destroyed before the
\* pipeline was created.
C29_ModulesDestroyed ==
    /\ ppc = "true" => \A m \in DOMAIN modules : modules[m] = 1
    /\ ppc # "true" => \A m \in DOMAIN modules : modules[m] = 0
    /\ ppc = "true" => _pipeline = NewHandle

\* A successful call that created two modules.
C29_Witness ==
    /\ ppc = "true"
    /\ Len(modules) = 2
    /\ \A m \in DOMAIN modules : modules[m] = 1

\* C30: two consecutive recreate_swapchain calls made with the same nonzero
\* window extent, to which the surface gave the same number of images, leave
\* the same number of images, views and framebuffers, and framebuffers of
\* the same width and height.
SameSurface(a, b) ==
    /\ a.window = b.window
    /\ a.window[1] # 0 /\ a.window[2] # 0
    /\ a.images = b.images

C30_RebuildIdempotent ==
    \A i \in 1 .. Len(rebuilt) - 1 :
        LET a == rebuilt[i]
            b == rebuilt[i + 1]
        IN  SameSurface(a, b) =>
               /\ b.images = a.images
               /\ b.views = a.views
               /\ b.framebuffers = a.framebuffers
               /\ (~a.failed /\ ~b.failed) => b.sizes = a.sizes
               /\ Cardinality(a.sizes \cup b.sizes) <= 1

\* Two calls in a row rebuilt a swapchain of two images for the same window
\* without a failed call.
C30_Witness ==
    /\ Len(rebuilt) = 2
    /\ SameSurface(rebuilt[1], rebuilt[2])
    /\ ~rebuilt[1].failed /\ ~rebuilt[2].failed
    /\ rebuilt[2].framebuffers = 2
    /\ rebuilt[2].sizes = {rebuilt[2].window}

\* C31: execution k of draw_frame (from 0) uses slot k mod N throughout: the
\* fence it waits on and resets, the submission, the image-available
\* semaphore of the acquire and the present's render-finished semaphore are
\* the slot's; the slot index stays in 0 .. N-1 and advances by one mod N
\* per execution.
SlotOfFrame == frames % max_frames_in_flight

SlotInv ==
    /\ current_frame \in Slots
    /\ current_frame = SlotOfFrame

SlotStep ==
    /\ (pc = "draw_wait" /\ pc' = "draw_acquire") => _inflight_fences[SlotOfFrame]
    /\ \A i \in Slots :
          /\ (_inflight_fences[i] /\ ~_inflight_fences'[i]) => i = SlotOfFrame
          /\ pending'[i] > pending[i] => i = SlotOfFrame
          /\ (~_image_available_semaphores[i] /\ _image_available_semaphores'[i])
                => i = SlotOfFrame
          /\ presents'[i] > presents[i] => i = SlotOfFrame
    /\ current_frame' # current_frame
          => /\ frames' = frames + 1
             /\ current_frame' = (current_frame + 1) % max_frames_in_flight
    /\ frames' # frames => current_frame' # current_frame

C31_SlotOfIteration == []SlotInv /\ [][SlotStep]_vars

\* The fourth execution (k = 3) is running on slot 1 and has submitted.
C31_Witness ==
    /\ frames = 3
    /\ pc = "draw_present"
    /\ current_frame = 1
    /\ pending[1] > 0

\* C32: every swapchain create_swapchain creates has the extent the surface
\* reports at that moment as its image extent, whatever _width and _height
\* hold.
CreatesSwapchain ==
    /\ AtMain("init_swapchain") \/ AtFrame("create_swapchain")
    /\ fails' = fails

SwapchainExtentStep ==
    CreatesSwapchain
        => /\ _swapchain' \in DOMAIN handles'
           /\ handles'[_swapchain'].destroys = 0
           /\ handles'[_swapchain'].kind = "swapchain"
           /\ handles'[_swapchain'].w = win[1]
           /\ handles'[_swapchain'].h = win[2]

C32_SurfaceExtent == [][SwapchainExtentStep]_vars

\* init_vulkan created the swapchain of a window whose surface reports
\* another width than the constructor was given.
C32_Witness ==
    /\ AtMain("init_views")
    /\ Live(_swapchain)
    /\ handles[_swapchain].w = win[1]
    /\ handles[_swapchain].w # _width

\* C33: whenever draw_frame records and presents, image_index was written
\* by a successful acquire of the same iteration and is smaller than the
\* number of framebuffers.
C33_ImageIndexValid ==
    (AtMain("draw_record") \/ AtMain("draw_submit") \/ AtMain("draw_present"))
        => /\ acquire_result \in {"success", "suboptimal"}
           /\ image_index \in 0 .. (Len(_framebuffers) - 1)

\* C34: the completion of a submission of slot i signals
\* _render_finished_semaphores[i] only when no present queued by an earlier
\* use of slot i is still waiting on it: the only present that may be queued
\* on the slot is the one of the submission's own iteration.
EarlierPresentPending(i) ==
    presents[i] > (IF Presenting(i) THEN 0 ELSE 1)

RenderFinishedStep ==
    \A i \in Slots : pending'[i] < pending[i] => ~EarlierPresentPending(i)

C34_NoSignalUnderPendingPresent == [][RenderFinishedStep]_vars

\* C35: a recreate_swapchain blocked on a zero-area window that reads a
\* framebuffer size with both dimensions above zero goes on to
\* vkDeviceWaitIdle, with no wait for a further event in between.
ObservationStep ==
    (AtFrame("loop_get") /\ ~ShouldWait(win[1], win[2]) /\ stack' # stack)
        => /\ Len(stack') = Len(stack)
           /\ stack'[Len(stack')].pc = "wait_idle"

C35_ProceedsOnObservation == [][ObservationStep]_vars

\* C36: whenever create_framebuffers runs, _width and _height are both
\* above zero, and no framebuffer exists with a zero width or height.
C36_NonzeroFramebuffers ==
    /\ (AtMain("init_framebuffers") \/ AtFrame("create_framebuffers"))
          => (_width > 0 /\ _height > 0)
    /\ \A f \in DOMAIN handles :
          (handles[f].kind = "framebuffer" /\ handles[f].destroys = 0)
             => (handles[f].w > 0 /\ handles[f].h > 0)

\* A size event delivered inside the wait of a recreate_swapchain that is
\* blocked on a zero-area window has reached create_framebuffers.
C36_Witness ==
    /\ Len(stack) = 2
    /\ AtFrame("create_framebuffers")
    /\ stack[1].pc = "wait_events"
    /\ stack[1].width = 0
    /\ _width > 0 /\ _height > 0

\* C37: the stage count declared to vkCreateGraphicsPipelines equals the
\* number of entries in shader_stages, for every shader list.
C37_DeclaredStages ==
    ppc = "pipeline" => stageCount = Len(shader_stages)

\* C38: whenever the frame loop records a frame, every framebuffer, the
\* render area, the viewport and the scissor have the image extent the
\* current swapchain was created with.
SwapchainExtent == << handles[_swapchain].w, handles[_swapchain].h >>

C38_ExtentsAgree ==
    AtMain("draw_record")
        => /\ Live(_swapchain)
           /\ \A i \in DOMAIN _framebuffers :
                 /\ Live(_framebuffers[i])
                 /\ << handles[_framebuffers[i]].w, handles[_framebuffers[i]].h >>
                       = SwapchainExtent
           /\ renderArea = SwapchainExtent
           /\ viewport = SwapchainExtent
           /\ scissor = SwapchainExtent

\* C39: whenever the three queue families are resolved, the transfer family
\* differs from the graphics family, so the two indices create_buffer lists
\* for concurrent sharing are distinct.
create_buffer_indices == << _indices.graphics, _indices.transfer >>

C39_TransferNotGraphics ==
    is_complete(_indices) => create_buffer_indices[1] # create_buffer_indices[2]

\* The device was created on a table in which the graphics family also has
\* transfer capability.
C39_Witness ==
    /\ DeviceRequested
    /\ is_complete(_indices)
    /\ properties[_indices.graphics + 1].transfer

\* C40: a step of recreate_swapchain changes nothing but the swapchain, the
\* image, view and framebuffer lists and the objects they name: the pipeline
\* and its layout, the semaphores and fences, the frame slot, the geometry
\* buffer and the index and vertex counts stay as they are.
InRecreate == stack # << >> /\ stack' # stack /\ Len(stack') <= Len(stack)

RecreateFrameStep ==
    InRecreate
        => UNCHANGED << _pipeline_layout, _pipeline, pipeVars,
                        _inflight_fences, _image_available_semaphores,
                        _render_finished_semaphores, current_frame, pending, presents,
                        _vertex_buffer, _vertex_buffer_memory, buffers,
                        _index_count, _vertex_count, uploadVars, devVars >>

C40_RecreateFrame == [][RecreateFrameStep]_vars

\* A rebuild made between two frames has replaced the swapchain and is
\* about to return; slot 0's frame was submitted before it.
C40_Witness ==
    /\ AtFrame("return")
    /\ ~Top.failed
    /\ current_frame = 1
    /\ Live(_swapchain)
    /\ \A i \in DOMAIN _framebuffers : Live(_framebuffers[i])

====
